---------------------------- MODULE Spec2Model ----------------------------
(***************************************************************************)
(* Producer / consumer over one TCP connection (src/producer.c,            *)
(* src/consumer.c).  The producer forks the consumer, connects to it with  *)
(* a retry loop, and NUM_THREADS producer threads read integers from a     *)
(* file under file_mutex and send each as a 4-byte big-endian frame.  The  *)
(* consumer listens, accepts one connection under a SIGALRM timeout, and   *)
(* NUM_THREADS consumer threads receive frames and append them to          *)
(* data_array under array_mutex.                                           *)
(*                                                                         *)
(* The connection is modelled as the byte stream it is: a send may         *)
(* transfer 4 bytes, fewer, or fail; recv(MSG_WAITALL) returns 4 bytes, or *)
(* fewer once the peer has closed, or fails.                               *)
(***************************************************************************)
EXTENDS Integers, Sequences, FiniteSets, TLC

\* ---------------------------------------------------------------- constants

\* producer.c:23, consumer.c:23
NUM_THREADS == 2

\* producer.c:25 and consumer.c:25 set MAX_DATA to 100 (the producer's total
\* count N and the consumer's capacity C); the model scales it down.
MAX_DATA == 2

\* producer.c:122 sets MAX_RETRIES to 50; the model scales it down.
MAX_RETRIES == 2

\* Bound on the number of environment faults (failing system calls) in a run.
MaxFaults == 1

\* sizeof(uint32_t): the frame width (producer.c:64, consumer.c:61)
FRAME == 4

\* The integers of the input file are a prefix of this sequence.
FullSource == <<3, -1, 3, 42, 0, 7>>

\* Lengths of the input file: shorter than, equal to and longer than MAX_DATA.
SourceLens == 0..(MAX_DATA + 1)

PW == 1..NUM_THREADS    \* producer threads
CW == 1..NUM_THREADS    \* consumer threads

\* ------------------------------------------------------------ byte order

\* TLC's integers are 32-bit, so a uint32_t is held as its four bytes:
\* a function on 0..3, index 0 the least significant byte.
TwoTo7  == 2^7
TwoTo8  == 2^8
TwoTo16 == 2^16
TwoTo24 == 2^24
INT_MIN == (-2147483647) - 1

\* The hosts of both processes (one machine) are little-endian (x86-64, arm64).
HOST_LITTLE_ENDIAN == TRUE

\* (uint32_t)value: the two's complement bits of the int
ToU32(v) ==
    LET low == IF v >= 0 THEN v ELSE v - INT_MIN     \* bits 0..30
    IN  [k \in 0..3 |->
            CASE k = 0 -> low % TwoTo8
              [] k = 1 -> (low \div TwoTo8) % TwoTo8
              [] k = 2 -> (low \div TwoTo16) % TwoTo8
              [] k = 3 -> (low \div TwoTo24) + (IF v < 0 THEN TwoTo7 ELSE 0)]

\* (int)u
ToInt32(u) ==
    LET low == u[0] + u[1] * TwoTo8 + u[2] * TwoTo16 + (u[3] % TwoTo7) * TwoTo24
    IN  IF u[3] >= TwoTo7 THEN low + INT_MIN ELSE low

\* the 32-bit word with its bytes reversed
bswap32(u) == [k \in 0..3 |-> u[3 - k]]

htonl(u) == IF HOST_LITTLE_ENDIAN THEN bswap32(u) ELSE u

\* A variant of ntohl that leaves the word in network byte order.
ntohl_Identity(u) == u

ntohl(u) == IF HOST_LITTLE_ENDIAN THEN bswap32(u) ELSE u

\* the bytes of a uint32_t object in memory, lowest address first
MemBytes(u) ==
    IF HOST_LITTLE_ENDIAN
    THEN <<u[0], u[1], u[2], u[3]>>
    ELSE <<u[3], u[2], u[1], u[0]>>

\* the uint32_t whose object representation is the 4 bytes b
FromMem(b) ==
    IF HOST_LITTLE_ENDIAN
    THEN [k \in 0..3 |-> b[k + 1]]
    ELSE [k \in 0..3 |-> b[4 - k]]

\* producer.c:63-64: the bytes send() is given for value v
Encode(v) == MemBytes(htonl(ToU32(v)))

\* consumer.c:61,77: the int stored for the 4 received bytes b
Decode(b) == ToInt32(ntohl(FromMem(b)))

\* ---------------------------------------------------------------- helpers

Count(s, v) == Cardinality({i \in DOMAIN s : s[i] = v})

Range(s) == {s[i] : i \in DOMAIN s}

Prefix(s, n) == SubSeq(s, 1, n)

Drop(s, n) == SubSeq(s, n + 1, Len(s))

\* ------------------------------------------------------------------ state

VARIABLES
    \* the input file
    source,         \* the integers of the file
    srcPos,         \* how many of them the FILE stream has consumed
    \* producer process
    ppc,            \* main()'s position
    retries,        \* producer.c:121
    socket_fd,      \* producer.c:29: the id of the current socket, or -1
    nsock,          \* sockets created so far
    openSocks,      \* producer sockets that are open
    connSock,       \* the socket whose connect succeeded, or -1
    pcreated,       \* producer.c:168
    pjoined,        \* join loop index, producer.c:178
    pexit,          \* exit code, -1 while running
    numbers_read,   \* producer.c:30
    file_mutex,     \* 0 free, else the owning thread
    pw,             \* producer thread positions
    pval,           \* producer thread local: value
    ptmp,           \* producer thread: numbers_read as loaded for ++
    \* consumer process
    cpc,            \* main()'s position
    listening,      \* listen_fd is a listening socket
    alarmArmed,     \* alarm(5) pending
    timed_out,      \* consumer.c:36
    conn_fd,        \* "none", "open", "closed"
    ccreated,       \* consumer.c:153
    cjoined,        \* join loop index, consumer.c:163
    cexit,          \* exit code, -1 while running or killed
    data_array,     \* consumer.c:28
    data_index,     \* consumer.c:29
    array_mutex,    \* 0 free, else the owning thread
    cw,             \* consumer thread positions
    cval,           \* consumer thread local: the received bytes
    ctmp,           \* consumer thread: data_index as loaded for [data_index++]
    cwhy,           \* why a consumer thread left its loop
    \* the connection
    conn,           \* "none", "pending" (in the listen backlog), "established"
    wire,           \* bytes sent and not yet received
    \* history
    usleeps,        \* usleep(100000) calls made
    pfatal,         \* the setup-fatal path the producer took
    killSent,       \* kill(pid, SIGTERM) was called
    reaped,         \* waitpid(pid) returned
    pulled,         \* the indices of the file items read, in order
    sent,           \* values whose 4 bytes were all sent, in order
    sendFailed,     \* some send did not transfer 4 bytes
    recvFailed,     \* some recv returned < 0
    recvCalls,      \* recv calls that returned
    rcvd,           \* the bytes complete recv calls returned, in order
    writes,         \* per slot of data_array: the number of stores into it
    faults          \* environment faults injected so far

prodVars == <<ppc, retries, socket_fd, nsock, openSocks, connSock, pcreated,
              pjoined, pexit>>
pthrVars == <<numbers_read, file_mutex, pw, pval, ptmp>>
consVars == <<cpc, listening, alarmArmed, timed_out, conn_fd, ccreated,
              cjoined, cexit>>
cthrVars == <<data_array, data_index, array_mutex, cw, cval, ctmp, cwhy>>
histVars == <<usleeps, pfatal, killSent, reaped, pulled, sent, sendFailed,
              recvFailed, recvCalls, rcvd, writes, faults>>
vars == <<source, srcPos, prodVars, pthrVars, consVars, cthrVars, conn, wire,
          histVars>>

\* the consumer process no longer exists, or has closed its end
ConsumerGone == cpc \in {"exited", "killed"} \/ conn_fd = "closed"

\* the producer has closed its end of the connection (FIN sent)
ProducerClosed == connSock # -1 /\ connSock \notin openSocks

CanFault == faults < MaxFaults

Init ==
    /\ source \in {Prefix(FullSource, n) : n \in SourceLens}
    /\ srcPos = 0
    \* "absent": the consumer binary was started alone (./consumer)
    /\ ppc \in {"fopen", "absent"}
    /\ retries = 0
    /\ socket_fd = -1
    /\ nsock = 0
    /\ openSocks = {}
    /\ connSock = -1
    /\ pcreated = 0
    /\ pjoined = 0
    /\ pexit = -1
    /\ numbers_read = 0
    /\ file_mutex = 0
    /\ pw = [t \in PW |-> "none"]
    /\ pval = [t \in PW |-> 0]
    /\ ptmp = [t \in PW |-> 0]
    /\ cpc = "socket"
    /\ listening = FALSE
    /\ alarmArmed = FALSE
    /\ timed_out = 0
    /\ conn_fd = "none"
    /\ ccreated = 0
    /\ cjoined = 0
    /\ cexit = -1
    /\ data_array = [i \in 0..(MAX_DATA - 1) |-> 0]
    /\ data_index = 0
    /\ array_mutex = 0
    /\ cw = [t \in CW |-> "none"]
    /\ cval = [t \in CW |-> <<>>]
    /\ ctmp = [t \in CW |-> 0]
    /\ cwhy = [t \in CW |-> "none"]
    /\ conn = "none"
    /\ wire = <<>>
    /\ usleeps = 0
    /\ pfatal = "none"
    /\ killSent = FALSE
    /\ reaped = FALSE
    /\ pulled = <<>>
    /\ sent = <<>>
    /\ sendFailed = FALSE
    /\ recvFailed = FALSE
    /\ recvCalls = 0
    /\ rcvd = <<>>
    /\ writes = [i \in 0..(MAX_DATA - 1) |-> 0]
    /\ faults = 0

\* ------------------------------------------------------- producer: main()

\* producer.c:97-104: fopen; on failure kill the child, wait, exit(EXIT_FAILURE)
P_Fopen ==
    /\ ppc = "fopen"
    /\ \/ /\ ppc' = "socket"
          /\ UNCHANGED <<pfatal, faults>>
       \/ /\ CanFault
          /\ ppc' = "kill"
          /\ pfatal' = "fopen"
          /\ faults' = faults + 1
    /\ UNCHANGED <<source, srcPos, retries, socket_fd, nsock, openSocks, connSock,
                   pcreated, pjoined, pexit, pthrVars, consVars, cthrVars, conn,
                   wire, usleeps, killSent, reaped, pulled, sent, sendFailed,
                   recvFailed, recvCalls, rcvd, writes>>

\* producer.c:128-135: a fresh socket for every attempt
P_Socket ==
    /\ ppc = "socket"
    /\ \/ /\ nsock' = nsock + 1
          /\ socket_fd' = nsock + 1
          /\ openSocks' = openSocks \cup {nsock + 1}
          /\ ppc' = "connect"
          /\ UNCHANGED <<pfatal, faults>>
       \/ /\ CanFault
          /\ socket_fd' = -1
          /\ ppc' = "kill"
          /\ pfatal' = "socket"
          /\ faults' = faults + 1
          /\ UNCHANGED <<nsock, openSocks>>
    /\ UNCHANGED <<source, srcPos, retries, connSock, pcreated, pjoined, pexit,
                   pthrVars, consVars, cthrVars, conn, wire, usleeps, killSent,
                   reaped, pulled, sent, sendFailed, recvFailed, recvCalls, rcvd, writes>>

\* A variant of P_Connect that leaves a refused socket open.
P_Connect_NoClose ==
    /\ ppc = "connect"
    /\ \/ /\ listening /\ conn = "none"
          /\ conn' = "pending"
          /\ connSock' = socket_fd
          /\ ppc' = "create"
          /\ UNCHANGED <<socket_fd, openSocks, pfatal, faults>>
       \/ /\ ~listening
          /\ ppc' = "sleep"
          /\ UNCHANGED <<socket_fd, openSocks, conn, connSock, pfatal, faults>>
       \/ /\ CanFault
          /\ openSocks' = openSocks \ {socket_fd}
          /\ socket_fd' = -1
          /\ ppc' = "kill"
          /\ pfatal' = "connect"
          /\ faults' = faults + 1
          /\ UNCHANGED <<conn, connSock>>
    /\ UNCHANGED <<source, srcPos, retries, nsock, pcreated, pjoined, pexit,
                   pthrVars, consVars, cthrVars, wire, usleeps, killSent, reaped,
                   pulled, sent, sendFailed, recvFailed, recvCalls, rcvd, writes>>

\* A variant of P_Connect that goes on to create the workers whether or not
\* the connection was made.
P_Connect_Unchecked ==
    /\ ppc = "connect"
    /\ \/ /\ listening /\ conn = "none"
          /\ conn' = "pending"
          /\ connSock' = socket_fd
          /\ ppc' = "create"
          /\ UNCHANGED <<socket_fd, openSocks, pfatal, faults>>
       \/ /\ ~listening
          /\ ppc' = "create"
          /\ UNCHANGED <<socket_fd, openSocks, conn, connSock, pfatal, faults>>
       \/ /\ CanFault
          /\ openSocks' = openSocks \ {socket_fd}
          /\ socket_fd' = -1
          /\ ppc' = "kill"
          /\ pfatal' = "connect"
          /\ faults' = faults + 1
          /\ UNCHANGED <<conn, connSock>>
    /\ UNCHANGED <<source, srcPos, retries, nsock, pcreated, pjoined, pexit,
                   pthrVars, consVars, cthrVars, wire, usleeps, killSent, reaped,
                   pulled, sent, sendFailed, recvFailed, recvCalls, rcvd, writes>>

\* producer.c:137-146,156-163: connect succeeds once the consumer listens;
\* otherwise it is refused (ECONNREFUSED), or fails with another error.  A
\* failed socket is closed and socket_fd reset.
P_Connect ==
    /\ ppc = "connect"
    /\ \/ /\ listening /\ conn = "none"
          /\ conn' = "pending"
          /\ connSock' = socket_fd
          /\ ppc' = "create"
          /\ UNCHANGED <<socket_fd, openSocks, pfatal, faults>>
       \/ /\ ~listening
          /\ openSocks' = openSocks \ {socket_fd}
          /\ socket_fd' = -1
          /\ ppc' = "sleep"
          /\ UNCHANGED <<conn, connSock, pfatal, faults>>
       \/ /\ CanFault
          /\ openSocks' = openSocks \ {socket_fd}
          /\ socket_fd' = -1
          /\ ppc' = "kill"
          /\ pfatal' = "connect"
          /\ faults' = faults + 1
          /\ UNCHANGED <<conn, connSock>>
    /\ UNCHANGED <<source, srcPos, retries, nsock, pcreated, pjoined, pexit,
                   pthrVars, consVars, cthrVars, wire, usleeps, killSent, reaped,
                   pulled, sent, sendFailed, recvFailed, recvCalls, rcvd, writes>>

\* producer.c:147-155: usleep, retries++, then the budget test
P_Sleep ==
    /\ ppc = "sleep"
    /\ usleeps' = usleeps + 1
    /\ retries' = retries + 1
    /\ IF retries' > MAX_RETRIES
       THEN ppc' = "kill" /\ pfatal' = "retries"
       ELSE ppc' = "socket" /\ UNCHANGED pfatal
    /\ UNCHANGED <<source, srcPos, socket_fd, nsock, openSocks, connSock, pcreated,
                   pjoined, pexit, pthrVars, consVars, cthrVars, conn, wire,
                   killSent, reaped, pulled, sent, sendFailed, recvFailed,
                   recvCalls, rcvd, writes, faults>>

\* A variant of P_Kill that leaves the setup-fatal path without signalling
\* or waiting for the consumer.
P_Kill_NoSignal ==
    /\ ppc = "kill"
    /\ ppc' = "exited"
    /\ pexit' = 1
    /\ UNCHANGED <<source, srcPos, retries, socket_fd, nsock, openSocks, connSock,
                   pcreated, pjoined, pthrVars, consVars, cthrVars, conn, wire,
                   histVars>>

\* producer.c:101,131,151,159: kill(pid, SIGTERM).  The consumer installs no
\* SIGTERM handler, so a consumer that is still running is terminated.
P_Kill ==
    /\ ppc = "kill"
    /\ killSent' = TRUE
    /\ IF cpc \in {"exited", "killed"}
       THEN UNCHANGED <<cpc, listening, alarmArmed>>
       ELSE /\ cpc' = "killed"
            /\ listening' = FALSE
            /\ alarmArmed' = FALSE
    /\ ppc' = "waitkill"
    /\ UNCHANGED <<source, srcPos, retries, socket_fd, nsock, openSocks, connSock,
                   pcreated, pjoined, pexit, pthrVars, timed_out, conn_fd,
                   ccreated, cjoined, cexit, cthrVars, conn, wire, usleeps,
                   pfatal, reaped, pulled, sent, sendFailed, recvFailed,
                   recvCalls, rcvd, writes, faults>>

\* producer.c:102-103,132-134,152-154,160-162: waitpid, exit(EXIT_FAILURE)
P_WaitKill ==
    /\ ppc = "waitkill"
    /\ cpc \in {"exited", "killed"}
    /\ reaped' = TRUE
    /\ ppc' = "exited"
    /\ pexit' = 1
    /\ UNCHANGED <<source, srcPos, retries, socket_fd, nsock, openSocks, connSock,
                   pcreated, pjoined, pthrVars, consVars, cthrVars, conn, wire,
                   usleeps, pfatal, killSent, pulled, sent, sendFailed,
                   recvFailed, recvCalls, rcvd, writes, faults>>

\* producer.c:170-176: one iteration of the pthread_create loop
P_Create ==
    /\ ppc = "create"
    /\ \/ /\ pcreated' = pcreated + 1
          /\ pw' = [pw EXCEPT ![pcreated + 1] = "lock"]
          /\ ppc' = IF pcreated + 1 = NUM_THREADS THEN "join" ELSE "create"
          /\ UNCHANGED faults
       \/ /\ CanFault
          /\ ppc' = "join"
          /\ faults' = faults + 1
          /\ UNCHANGED <<pcreated, pw>>
    /\ UNCHANGED <<source, srcPos, retries, socket_fd, nsock, openSocks, connSock,
                   pjoined, pexit, numbers_read, file_mutex, pval, ptmp, consVars,
                   cthrVars, conn, wire, usleeps, pfatal, killSent, reaped,
                   pulled, sent, sendFailed, recvFailed, recvCalls, rcvd, writes>>

\* A variant of P_Join that does not wait for the thread to finish.
P_Join_NoWait ==
    /\ ppc = "join"
    /\ pjoined < pcreated
    /\ pjoined' = pjoined + 1
    /\ UNCHANGED <<source, srcPos, ppc, retries, socket_fd, nsock, openSocks,
                   connSock, pcreated, pexit, pthrVars, consVars, cthrVars, conn,
                   wire, histVars>>

\* producer.c:178-180: pthread_join of the next created thread
P_Join ==
    /\ ppc = "join"
    /\ pjoined < pcreated
    /\ pw[pjoined + 1] = "done"
    /\ pjoined' = pjoined + 1
    /\ UNCHANGED <<source, srcPos, ppc, retries, socket_fd, nsock, openSocks,
                   connSock, pcreated, pexit, pthrVars, consVars, cthrVars, conn,
                   wire, histVars>>

\* A variant of P_Close that goes on to waitpid with the connection open.
P_Close_Leak ==
    /\ ppc = "join"
    /\ pjoined = pcreated
    /\ ppc' = "waitpid"
    /\ UNCHANGED <<source, srcPos, retries, socket_fd, nsock, openSocks, connSock,
                   pcreated, pjoined, pexit, pthrVars, consVars, cthrVars, conn,
                   wire, histVars>>

\* producer.c:182-184: close(socket_fd), fclose, pthread_mutex_destroy
P_Close ==
    /\ ppc = "join"
    /\ pjoined = pcreated
    /\ openSocks' = openSocks \ {socket_fd}
    /\ ppc' = "waitpid"
    /\ UNCHANGED <<source, srcPos, retries, socket_fd, nsock, connSock, pcreated,
                   pjoined, pexit, pthrVars, consVars, cthrVars, conn, wire,
                   histVars>>

\* producer.c:186-189: waitpid for the consumer, return 0
P_Waitpid ==
    /\ ppc = "waitpid"
    /\ cpc \in {"exited", "killed"}
    /\ reaped' = TRUE
    /\ ppc' = "exited"
    /\ pexit' = 0
    /\ UNCHANGED <<source, srcPos, retries, socket_fd, nsock, openSocks, connSock,
                   pcreated, pjoined, pthrVars, consVars, cthrVars, conn, wire,
                   usleeps, pfatal, killSent, pulled, sent, sendFailed,
                   recvFailed, recvCalls, rcvd, writes, faults>>

\* ------------------------------------------- producer: producer_thread_func

\* what a producer thread step leaves alone
pthrFrame == <<source, prodVars, consVars, cthrVars, conn, usleeps, pfatal,
               killSent, reaped, recvFailed, recvCalls, rcvd, writes>>

\* A variant of P_Lock that does not exclude: the thread enters the critical
\* section whoever holds file_mutex.
P_Lock_NoExclusion(t) ==
    /\ pw[t] = "lock"
    /\ file_mutex' = t
    /\ pw' = [pw EXCEPT ![t] = "check"]
    /\ UNCHANGED <<pthrFrame, srcPos, numbers_read, pval, ptmp, wire, pulled,
                   sent, sendFailed, faults>>

\* producer.c:44: pthread_mutex_lock(&file_mutex)
P_Lock(t) ==
    /\ pw[t] = "lock"
    /\ file_mutex = 0
    /\ file_mutex' = t
    /\ pw' = [pw EXCEPT ![t] = "check"]
    /\ UNCHANGED <<pthrFrame, srcPos, numbers_read, pval, ptmp, wire, pulled,
                   sent, sendFailed, faults>>

\* A variant of P_Check whose bound test is off by one (> for >=).
P_Check_OffByOne(t) ==
    /\ pw[t] = "check"
    /\ IF numbers_read > MAX_DATA
       THEN /\ file_mutex' = 0
            /\ pw' = [pw EXCEPT ![t] = "done"]
       ELSE /\ pw' = [pw EXCEPT ![t] = "fscanf"]
            /\ UNCHANGED file_mutex
    /\ UNCHANGED <<pthrFrame, srcPos, numbers_read, pval, ptmp, wire, pulled,
                   sent, sendFailed, faults>>

\* producer.c:47-50: stop once MAX_DATA numbers have been read
P_Check(t) ==
    /\ pw[t] = "check"
    /\ IF numbers_read >= MAX_DATA
       THEN /\ file_mutex' = 0
            /\ pw' = [pw EXCEPT ![t] = "done"]
       ELSE /\ pw' = [pw EXCEPT ![t] = "fscanf"]
            /\ UNCHANGED file_mutex
    /\ UNCHANGED <<pthrFrame, srcPos, numbers_read, pval, ptmp, wire, pulled,
                   sent, sendFailed, faults>>

\* producer.c:53-56: fscanf reads the next integer of the stream (stdio locks
\* the FILE for the call); at end of file: unlock and leave the loop
P_Fscanf(t) ==
    /\ pw[t] = "fscanf"
    /\ IF srcPos < Len(source)
       THEN /\ srcPos' = srcPos + 1
            /\ pval' = [pval EXCEPT ![t] = source[srcPos + 1]]
            /\ pulled' = Append(pulled, srcPos + 1)
            /\ pw' = [pw EXCEPT ![t] = "inc_load"]
            /\ UNCHANGED file_mutex
       ELSE /\ file_mutex' = 0
            /\ pw' = [pw EXCEPT ![t] = "done"]
            /\ UNCHANGED <<srcPos, pval, pulled>>
    /\ UNCHANGED <<pthrFrame, numbers_read, ptmp, wire, sent, sendFailed, faults>>

\* producer.c:57: numbers_read++, the load
P_IncLoad(t) ==
    /\ pw[t] = "inc_load"
    /\ ptmp' = [ptmp EXCEPT ![t] = numbers_read]
    /\ pw' = [pw EXCEPT ![t] = "inc_store"]
    /\ UNCHANGED <<pthrFrame, srcPos, numbers_read, file_mutex, pval, wire,
                   pulled, sent, sendFailed, faults>>

\* producer.c:57-59: numbers_read++, the store; the status line
P_IncStore(t) ==
    /\ pw[t] = "inc_store"
    /\ numbers_read' = ptmp[t] + 1
    /\ ptmp' = [ptmp EXCEPT ![t] = 0]
    /\ pw' = [pw EXCEPT ![t] = "unlock"]
    /\ UNCHANGED <<pthrFrame, srcPos, file_mutex, pval, wire, pulled,
                   sent, sendFailed, faults>>

\* A variant of P_Unlock that goes on to send with file_mutex still held.
P_Unlock_Late(t) ==
    /\ pw[t] = "unlock"
    /\ pw' = [pw EXCEPT ![t] = "send"]
    /\ UNCHANGED <<pthrFrame, srcPos, numbers_read, file_mutex, pval, ptmp, wire,
                   pulled, sent, sendFailed, faults>>

\* producer.c:61: pthread_mutex_unlock(&file_mutex)
P_Unlock(t) ==
    /\ pw[t] = "unlock"
    /\ file_mutex' = 0
    /\ pw' = [pw EXCEPT ![t] = "send"]
    /\ UNCHANGED <<pthrFrame, srcPos, numbers_read, pval, ptmp, wire, pulled,
                   sent, sendFailed, faults>>

\* A variant of P_Send in which a send that does not transfer 4 bytes ends
\* the whole process with exit(EXIT_FAILURE).
P_Send_Abort(t) ==
    /\ pw[t] = "send"
    /\ \/ /\ sent' = Append(sent, pval[t])
          /\ wire' = IF ConsumerGone THEN wire ELSE wire \o Encode(pval[t])
          /\ pw' = [pw EXCEPT ![t] = "lock"]
          /\ UNCHANGED <<sendFailed, faults, ppc, pexit>>
       \/ /\ ConsumerGone
          /\ sendFailed' = TRUE
          /\ pw' = [pw EXCEPT ![t] = "done"]
          /\ ppc' = "exited"
          /\ pexit' = 1
          /\ UNCHANGED <<sent, wire, faults>>
       \/ /\ CanFault
          /\ faults' = faults + 1
          /\ sendFailed' = TRUE
          /\ pw' = [pw EXCEPT ![t] = "done"]
          /\ ppc' = "exited"
          /\ pexit' = 1
          /\ \E n \in 0..(FRAME - 1) :
                wire' = IF ConsumerGone THEN wire
                        ELSE wire \o Prefix(Encode(pval[t]), n)
          /\ UNCHANGED sent
    /\ pval' = [pval EXCEPT ![t] = 0]
    /\ UNCHANGED <<source, retries, socket_fd, nsock, openSocks, connSock,
                   pcreated, pjoined, consVars, cthrVars, conn, usleeps, pfatal,
                   killSent, reaped, recvFailed, recvCalls, rcvd, writes, srcPos,
                   numbers_read, file_mutex, ptmp, pulled>>

\* producer.c:63-70: send the 4-byte frame.  All 4 bytes are transferred, or
\* the call fails (always possible once the consumer's end is gone), or only
\* the first n < 4 bytes are transferred; unless all 4 were sent the thread
\* leaves its loop.
P_Send(t) ==
    /\ pw[t] = "send"
    /\ \/ /\ sent' = Append(sent, pval[t])
          /\ wire' = IF ConsumerGone THEN wire ELSE wire \o Encode(pval[t])
          /\ pw' = [pw EXCEPT ![t] = "lock"]
          /\ UNCHANGED <<sendFailed, faults>>
       \/ /\ ConsumerGone
          /\ sendFailed' = TRUE
          /\ pw' = [pw EXCEPT ![t] = "done"]
          /\ UNCHANGED <<sent, wire, faults>>
       \/ /\ CanFault
          /\ faults' = faults + 1
          /\ sendFailed' = TRUE
          /\ pw' = [pw EXCEPT ![t] = "done"]
          /\ \E n \in 0..(FRAME - 1) :
                wire' = IF ConsumerGone THEN wire
                        ELSE wire \o Prefix(Encode(pval[t]), n)
          /\ UNCHANGED sent
    /\ pval' = [pval EXCEPT ![t] = 0]
    /\ UNCHANGED <<pthrFrame, srcPos, numbers_read, file_mutex, ptmp, pulled>>

\* ------------------------------------------------------- consumer: main()

\* what a step of the consumer's main() leaves alone
cmainFrame == <<source, srcPos, prodVars, pthrVars, wire, usleeps, pfatal,
                killSent, reaped, pulled, sent, sendFailed, recvFailed,
                recvCalls, rcvd, writes>>

\* consumer.c:90-102: socket and setsockopt; on failure exit(EXIT_FAILURE)
C_Socket ==
    /\ cpc = "socket"
    /\ \/ /\ cpc' = "bind"
          /\ UNCHANGED <<cexit, faults>>
       \/ /\ CanFault
          /\ faults' = faults + 1
          /\ cpc' = "exited"
          /\ cexit' = 1
    /\ UNCHANGED <<cmainFrame, listening, alarmArmed, timed_out, conn_fd,
                   ccreated, cjoined, cthrVars, conn>>

\* consumer.c:115-124: bind and listen; on failure exit(EXIT_FAILURE)
C_Listen ==
    /\ cpc = "bind"
    /\ \/ /\ listening' = TRUE
          /\ cpc' = "alarm"
          /\ UNCHANGED <<cexit, faults>>
       \/ /\ CanFault
          /\ faults' = faults + 1
          /\ cpc' = "exited"
          /\ cexit' = 1
          /\ UNCHANGED listening
    /\ UNCHANGED <<cmainFrame, alarmArmed, timed_out, conn_fd, ccreated, cjoined,
                   cthrVars, conn>>

\* consumer.c:127-133: install the handler, alarm(5), enter accept
C_Alarm ==
    /\ cpc = "alarm"
    /\ alarmArmed' = TRUE
    /\ cpc' = "accept"
    /\ UNCHANGED <<cmainFrame, listening, timed_out, conn_fd, ccreated, cjoined,
                   cexit, cthrVars, conn, faults>>

\* consumer.c:38-41 with signal(2)'s semantics: SIGALRM arrives while accept
\* is blocked with no connection pending.  The handler sets timed_out.  What
\* accept does next is the build's choice: with System V semantics it fails
\* with EINTR, with BSD semantics (SA_RESTART, the default of glibc and of
\* macOS) it is restarted and blocks again, now with no alarm pending.
C_AlarmFires ==
    /\ cpc = "accept"
    /\ alarmArmed
    /\ conn # "pending"
    /\ alarmArmed' = FALSE
    /\ timed_out' = 1
    /\ \E restart \in BOOLEAN :
          cpc' = IF restart THEN "accept" ELSE "accept_failed"
    /\ UNCHANGED <<cmainFrame, listening, conn_fd, ccreated, cjoined, cexit,
                   cthrVars, conn, faults>>

\* consumer.c:133: accept returns the pending connection, or fails
C_Accept ==
    /\ cpc = "accept"
    /\ \/ /\ conn = "pending"
          /\ conn' = "established"
          /\ conn_fd' = "open"
          /\ cpc' = "accepted"
          /\ UNCHANGED faults
       \/ /\ CanFault
          /\ faults' = faults + 1
          /\ cpc' = "accept_failed"
          /\ UNCHANGED <<conn, conn_fd>>
    /\ UNCHANGED <<cmainFrame, listening, alarmArmed, timed_out, ccreated,
                   cjoined, cexit, cthrVars>>

\* consumer.c:134-146: conn_fd < 0: return 0 if timed_out, else
\* exit(EXIT_FAILURE); the listening socket is closed either way
C_AcceptFailed ==
    /\ cpc = "accept_failed"
    /\ listening' = FALSE
    /\ alarmArmed' = FALSE
    /\ cpc' = "exited"
    /\ cexit' = IF timed_out = 1 THEN 0 ELSE 1
    /\ UNCHANGED <<cmainFrame, timed_out, conn_fd, ccreated, cjoined, cthrVars,
                   conn, faults>>

\* consumer.c:147-148: alarm(0), close(listen_fd)
C_Accepted ==
    /\ cpc = "accepted"
    /\ alarmArmed' = FALSE
    /\ listening' = FALSE
    /\ cpc' = "create"
    /\ UNCHANGED <<cmainFrame, timed_out, conn_fd, ccreated, cjoined, cexit,
                   cthrVars, conn, faults>>

\* consumer.c:155-161: one iteration of the pthread_create loop
C_Create ==
    /\ cpc = "create"
    /\ \/ /\ ccreated' = ccreated + 1
          /\ cw' = [cw EXCEPT ![ccreated + 1] = "lock"]
          /\ cpc' = IF ccreated + 1 = NUM_THREADS THEN "join" ELSE "create"
          /\ UNCHANGED faults
       \/ /\ CanFault
          /\ faults' = faults + 1
          /\ cpc' = "join"
          /\ UNCHANGED <<ccreated, cw>>
    /\ UNCHANGED <<cmainFrame, listening, alarmArmed, timed_out, conn_fd, cjoined,
                   cexit, data_array, data_index, array_mutex, cval, ctmp, cwhy,
                   conn>>

\* A variant of C_Join that does not wait for the thread to finish.
C_Join_NoWait ==
    /\ cpc = "join"
    /\ cjoined < ccreated
    /\ cjoined' = cjoined + 1
    /\ UNCHANGED <<cmainFrame, cpc, listening, alarmArmed, timed_out, conn_fd,
                   ccreated, cexit, cthrVars, conn, faults>>

\* consumer.c:163-165: pthread_join of the next created thread
C_Join ==
    /\ cpc = "join"
    /\ cjoined < ccreated
    /\ cw[cjoined + 1] = "done"
    /\ cjoined' = cjoined + 1
    /\ UNCHANGED <<cmainFrame, cpc, listening, alarmArmed, timed_out, conn_fd,
                   ccreated, cexit, cthrVars, conn, faults>>

\* consumer.c:167-170: close(conn_fd), pthread_mutex_destroy, return 0
C_Close ==
    /\ cpc = "join"
    /\ cjoined = ccreated
    /\ conn_fd' = "closed"
    /\ cpc' = "exited"
    /\ cexit' = 0
    /\ UNCHANGED <<cmainFrame, listening, alarmArmed, timed_out, ccreated,
                   cjoined, cthrVars, conn, faults>>

\* ------------------------------------------- consumer: consumer_thread_func

\* what a consumer thread step leaves alone
cthrFrame == <<source, srcPos, prodVars, pthrVars, consVars, conn, usleeps,
               pfatal, killSent, reaped, pulled, sent, sendFailed>>

\* A variant of C_Lock that does not exclude: the thread enters the critical
\* section whoever holds array_mutex.
C_Lock_NoExclusion(t) ==
    /\ cw[t] = "lock"
    /\ array_mutex' = t
    /\ cw' = [cw EXCEPT ![t] = "check"]
    /\ UNCHANGED <<cthrFrame, data_array, data_index, cval, ctmp, cwhy, wire,
                   recvFailed, recvCalls, rcvd, writes, faults>>

\* consumer.c:51: pthread_mutex_lock(&array_mutex)
C_Lock(t) ==
    /\ cw[t] = "lock"
    /\ array_mutex = 0
    /\ array_mutex' = t
    /\ cw' = [cw EXCEPT ![t] = "check"]
    /\ UNCHANGED <<cthrFrame, data_array, data_index, cval, ctmp, cwhy, wire,
                   recvFailed, recvCalls, rcvd, writes, faults>>

\* A variant of C_Check whose capacity test is off by one (> for >=).
C_Check_OffByOne(t) ==
    /\ cw[t] = "check"
    /\ IF data_index > MAX_DATA
       THEN /\ array_mutex' = 0
            /\ cw' = [cw EXCEPT ![t] = "done"]
            /\ cwhy' = [cwhy EXCEPT ![t] = "full"]
       ELSE /\ cw' = [cw EXCEPT ![t] = "recv"]
            /\ UNCHANGED <<array_mutex, cwhy>>
    /\ UNCHANGED <<cthrFrame, data_array, data_index, cval, ctmp, wire,
                   recvFailed, recvCalls, rcvd, writes, faults>>

\* consumer.c:54-57: the array is full: unlock and leave the loop
C_Check(t) ==
    /\ cw[t] = "check"
    /\ IF data_index >= MAX_DATA
       THEN /\ array_mutex' = 0
            /\ cw' = [cw EXCEPT ![t] = "done"]
            /\ cwhy' = [cwhy EXCEPT ![t] = "full"]
       ELSE /\ cw' = [cw EXCEPT ![t] = "recv"]
            /\ UNCHANGED <<array_mutex, cwhy>>
    /\ UNCHANGED <<cthrFrame, data_array, data_index, cval, ctmp, wire,
                   recvFailed, recvCalls, rcvd, writes, faults>>

\* A variant of C_Recv that releases array_mutex once a frame is received,
\* before the frame is stored.
C_Recv_Unlocked(t) ==
    /\ cw[t] = "recv"
    /\ recvCalls' = recvCalls + 1
    /\ \/ /\ Len(wire) >= FRAME
          /\ cval' = [cval EXCEPT ![t] = Prefix(wire, FRAME)]
          /\ wire' = Drop(wire, FRAME)
          /\ cw' = [cw EXCEPT ![t] = "store_load"]
          /\ rcvd' = rcvd \o Prefix(wire, FRAME)
          /\ array_mutex' = 0
          /\ UNCHANGED <<cwhy, recvFailed, faults>>
       \/ /\ Len(wire) < FRAME
          /\ ProducerClosed
          /\ wire' = <<>>
          /\ array_mutex' = 0
          /\ cw' = [cw EXCEPT ![t] = "done"]
          /\ cwhy' = [cwhy EXCEPT ![t] = IF Len(wire) = 0 THEN "closed" ELSE "short"]
          /\ UNCHANGED <<cval, recvFailed, faults, rcvd>>
       \/ /\ CanFault
          /\ faults' = faults + 1
          /\ recvFailed' = TRUE
          /\ array_mutex' = 0
          /\ cw' = [cw EXCEPT ![t] = "done"]
          /\ cwhy' = [cwhy EXCEPT ![t] = "error"]
          /\ UNCHANGED <<cval, wire, rcvd>>
    /\ UNCHANGED <<cthrFrame, data_array, data_index, ctmp, writes>>

\* consumer.c:61-75: recv(conn_fd, &net_val, 4, MSG_WAITALL) returns once 4
\* bytes have arrived (n = 4), or the producer has closed with fewer than 4
\* bytes left (n = 0: peer closed; 0 < n < 4: partial read), or it fails
\* (n < 0).  Unless n = 4 the thread unlocks and leaves the loop.
C_Recv(t) ==
    /\ cw[t] = "recv"
    /\ recvCalls' = recvCalls + 1
    /\ \/ /\ Len(wire) >= FRAME
          /\ cval' = [cval EXCEPT ![t] = Prefix(wire, FRAME)]
          /\ wire' = Drop(wire, FRAME)
          /\ cw' = [cw EXCEPT ![t] = "store_load"]
          /\ rcvd' = rcvd \o Prefix(wire, FRAME)
          /\ UNCHANGED <<array_mutex, cwhy, recvFailed, faults>>
       \/ /\ Len(wire) < FRAME
          /\ ProducerClosed
          /\ wire' = <<>>
          /\ array_mutex' = 0
          /\ cw' = [cw EXCEPT ![t] = "done"]
          /\ cwhy' = [cwhy EXCEPT ![t] = IF Len(wire) = 0 THEN "closed" ELSE "short"]
          /\ UNCHANGED <<cval, recvFailed, faults, rcvd>>
       \/ /\ CanFault
          /\ faults' = faults + 1
          /\ recvFailed' = TRUE
          /\ array_mutex' = 0
          /\ cw' = [cw EXCEPT ![t] = "done"]
          /\ cwhy' = [cwhy EXCEPT ![t] = "error"]
          /\ UNCHANGED <<cval, wire, rcvd>>
    /\ UNCHANGED <<cthrFrame, data_array, data_index, ctmp, writes>>

\* consumer.c:77-79: data_array[data_index++] = value, the load of the index
C_StoreLoad(t) ==
    /\ cw[t] = "store_load"
    /\ ctmp' = [ctmp EXCEPT ![t] = data_index]
    /\ cw' = [cw EXCEPT ![t] = "store"]
    /\ UNCHANGED <<cthrFrame, data_array, data_index, array_mutex, cval, cwhy,
                   wire, recvFailed, recvCalls, rcvd, writes, faults>>

\* consumer.c:77-81: data_array[data_index++] = (int)ntohl(net_val): the store
\* of the value and of the incremented index; the status line
C_Store(t) ==
    /\ cw[t] = "store"
    /\ data_array' = [data_array EXCEPT ![ctmp[t]] = Decode(cval[t])]
    /\ writes' = [writes EXCEPT ![ctmp[t]] = @ + 1]
    /\ data_index' = ctmp[t] + 1
    /\ ctmp' = [ctmp EXCEPT ![t] = 0]
    /\ cval' = [cval EXCEPT ![t] = <<>>]
    /\ cw' = [cw EXCEPT ![t] = "unlock"]
    /\ UNCHANGED <<cthrFrame, array_mutex, cwhy, wire, recvFailed,
                   recvCalls, rcvd, faults>>

\* consumer.c:83: pthread_mutex_unlock(&array_mutex)
C_Unlock(t) ==
    /\ cw[t] = "unlock"
    /\ array_mutex' = 0
    /\ cw' = [cw EXCEPT ![t] = "lock"]
    /\ UNCHANGED <<cthrFrame, data_array, data_index, cval, ctmp, cwhy, wire,
                   recvFailed, recvCalls, rcvd, writes, faults>>

\* ---------------------------------------------------------- specification

Next ==
    \/ P_Fopen
    \/ P_Socket
    \/ P_Connect
    \/ P_Sleep
    \/ P_Kill
    \/ P_WaitKill
    \/ P_Create
    \/ P_Join
    \/ P_Close
    \/ P_Waitpid
    \/ \E t \in PW : P_Lock(t)
    \/ \E t \in PW : P_Check(t)
    \/ \E t \in PW : P_Fscanf(t)
    \/ \E t \in PW : P_IncLoad(t)
    \/ \E t \in PW : P_IncStore(t)
    \/ \E t \in PW : P_Unlock(t)
    \/ \E t \in PW : P_Send(t)
    \/ C_Socket
    \/ C_Listen
    \/ C_Alarm
    \/ C_AlarmFires
    \/ C_Accept
    \/ C_AcceptFailed
    \/ C_Accepted
    \/ C_Create
    \/ C_Join
    \/ C_Close
    \/ \E t \in CW : C_Lock(t)
    \/ \E t \in CW : C_Check(t)
    \/ \E t \in CW : C_Recv(t)
    \/ \E t \in CW : C_StoreLoad(t)
    \/ \E t \in CW : C_Store(t)
    \/ \E t \in CW : C_Unlock(t)

Spec == Init /\ [][Next]_vars

\* ------------------------------------------------------------------ claims

\* the consumer's buffer: data_array[0 .. data_index-1] as a sequence
Buffer == [i \in 1..data_index |-> data_array[i - 1]]

\* C1: one step of the system, as it bears on the write index: data_index
\* stays in 0..MAX_DATA; it changes only by +1, in a step of a thread that
\* stores its decoded value at the old index; no store happens without that
\* increment; and at data_index = MAX_DATA no store and no recv happens.
C1_IndexStep ==
    /\ data_index' \in 0..MAX_DATA
    /\ (data_index' # data_index) =>
          /\ data_index' = data_index + 1
          /\ \E t \in CW :
                /\ cw[t] = "store"
                /\ data_array' = [data_array EXCEPT ![data_index] = Decode(cval[t])]
          /\ writes' = [writes EXCEPT ![data_index] = @ + 1]
    /\ (data_array' # data_array \/ writes' # writes) =>
          data_index' = data_index + 1
    /\ (data_index = MAX_DATA) =>
          /\ data_array' = data_array
          /\ writes' = writes
          /\ recvCalls' = recvCalls
          /\ Len(wire') >= Len(wire)

\* C1: 0 <= data_index <= MAX_DATA in every reachable state of the consumer;
\* the index only changes by +1 together with a store at the old index, and
\* once data_index = MAX_DATA no thread stores or receives again.
C1_IndexBounded == (data_index \in 0..MAX_DATA) /\ [][C1_IndexStep]_vars

\* C1 witness: the array is full and a thread has left its loop for that.
C1_Witness ==
    /\ data_index = MAX_DATA
    /\ \E t \in CW : cw[t] = "done" /\ cwhy[t] = "full"

\* C2: every slot below data_index has been stored into exactly once and no
\* slot at or above it has been stored into: no two insertions use the same
\* index and no slot is overwritten.
C2_SlotsWrittenOnce ==
    \A i \in 0..(MAX_DATA - 1) : writes[i] = IF i < data_index THEN 1 ELSE 0

\* C2 witness: the buffer has been filled while both threads were inserting:
\* one has just stored the last slot and the other is waiting for the lock.
C2_Witness ==
    /\ data_index = MAX_DATA
    /\ \E t, u \in CW : t # u /\ cw[t] = "unlock" /\ cw[u] = "lock"

\* C3: one step of the system, as it bears on numbers_read: it stays in
\* 0..MAX_DATA and does not decrease, and a thread that tests the bound with
\* numbers_read >= MAX_DATA reads nothing, unlocks and leaves its loop.
C3_ReadStep ==
    /\ numbers_read' \in 0..MAX_DATA
    /\ numbers_read' >= numbers_read
    /\ \A t \in PW :
          (pw[t] = "check" /\ pw'[t] # "check" /\ numbers_read >= MAX_DATA) =>
              /\ pw'[t] = "done"
              /\ srcPos' = srcPos
              /\ pulled' = pulled
              /\ file_mutex' = 0

\* C3: 0 <= numbers_read <= MAX_DATA in every reachable state of the producer;
\* numbers_read never decreases, and a thread that observes
\* numbers_read >= MAX_DATA reads nothing from the file and leaves its loop.
C3_ReadBounded == (numbers_read \in 0..MAX_DATA) /\ [][C3_ReadStep]_vars

\* C3 witness: a thread has left its loop at the bound, the file holding more.
C3_Witness ==
    /\ numbers_read = MAX_DATA
    /\ srcPos < Len(source)
    /\ ~sendFailed
    /\ \E t \in PW : pw[t] = "done"

\* threads between their fscanf and the completion of numbers_read++
Counting == {t \in PW : pw[t] \in {"inc_load", "inc_store"}}

\* C4: the items read from the file are its first items, in order, none
\* skipped and none read twice, and their number is numbers_read (plus the one
\* a thread has read and is about to count): the read and the increment are
\* one step under file_mutex.
C4_ReadExactlyOnce ==
    /\ Len(pulled) = srcPos
    /\ \A i \in 1..Len(pulled) : pulled[i] = i
    /\ Len(pulled) = numbers_read + Cardinality(Counting)
    /\ Cardinality(Counting) <= 1

\* C4 witness: both threads hold a value they have read and counted.
C4_Witness ==
    /\ numbers_read = 2
    /\ \A t \in PW : pw[t] = "send"
    /\ pval[1] # pval[2]

\* C5: the values in the buffer are, as a multiset, among the values the
\* producer threads have sent (each stored value is a sent value, as often at
\* most as it was sent), and the number of stored values exceeds none of
\* numbers_read and MAX_DATA.
C5_BufferFromSent ==
    /\ \A v \in Range(Buffer) : Count(Buffer, v) <= Count(sent, v)
    /\ data_index <= numbers_read
    /\ data_index <= MAX_DATA

\* the scenario of C6: the file holds K < MAX_DATA integers, the connection
\* is established, every thread is created, and no send has failed
C6_Scenario ==
    /\ Len(source) < MAX_DATA
    /\ conn = "established"
    /\ ppc \in {"join", "waitpid", "exited"} => pcreated = NUM_THREADS
    /\ cpc \in {"join", "exited"} => ccreated = NUM_THREADS
    /\ ~sendFailed

\* what C6 concludes: never more than K frames are written, exactly K once
\* the producer's threads are joined; a consumer thread that has left its
\* loop left it on recv returning 0, with all K values stored.
C6_Conclusion ==
    /\ Len(sent) <= Len(source)
    /\ ppc \in {"waitpid", "exited"} => Len(sent) = Len(source)
    /\ \A t \in CW :
          cw[t] = "done" =>
              /\ cwhy[t] = "closed"
              /\ data_index = Len(source)
              /\ Len(sent) = Len(source)

Terminal == ppc = "exited" /\ cpc = "exited"

\* C7: for a file of K <= MAX_DATA integers, with NUM_THREADS threads on each
\* side, the connection established and no failing call, at the end of the run
\* the buffer holds K values, the same multiset as the file's, and both
\* processes have exit code 0.
C7_EndToEnd ==
    (Terminal /\ conn = "established" /\ faults = 0 /\ Len(source) <= MAX_DATA) =>
        /\ pcreated = NUM_THREADS /\ ccreated = NUM_THREADS
        /\ data_index = Len(source)
        /\ \A v \in Range(source) \cup Range(Buffer) :
              Count(Buffer, v) = Count(source, v)
        /\ pexit = 0
        /\ cexit = 0

\* C7 witness: such a run has ended with a full buffer whose order is not the
\* file's.
C7_Witness ==
    /\ Terminal /\ conn = "established" /\ faults = 0
    /\ Len(source) = MAX_DATA
    /\ data_index = MAX_DATA
    /\ data_array[0] # source[1]

\* C8: when the consumer runs with no producer and its alarm has expired, it
\* is not left waiting in accept; and having ended that way its exit code is 0,
\* no thread was created and nothing was stored.
C8_AcceptTimeout ==
    /\ (ppc = "absent" /\ timed_out = 1) => cpc \in {"accept_failed", "exited"}
    /\ (ppc = "absent" /\ timed_out = 1 /\ cpc = "exited") =>
          /\ cexit = 0
          /\ ccreated = 0
          /\ data_index = 0

\* C9: a producer that has exhausted its retry budget has slept at most
\* MAX_RETRIES times, exits with a failure code, has created no thread and
\* has read nothing from the file.
C9_RetryBudget ==
    /\ pfatal = "retries" => usleeps <= MAX_RETRIES
    /\ (pfatal = "retries" /\ ppc = "exited") =>
          /\ pexit = 1
          /\ pcreated = 0
          /\ srcPos = 0

\* the setup-fatal paths C10 names
SetupFatal == pfatal \in {"socket", "retries", "connect"}

\* C10: a producer that has exited on a setup-fatal path (socket failure,
\* retry budget exceeded, other connect error) has sent SIGTERM to the
\* consumer and waited for it, exits with a failure code, and does not leave
\* the consumer running.
C10_FatalReleasesConsumer ==
    (SetupFatal /\ ppc = "exited") =>
        /\ killSent
        /\ reaped
        /\ pexit = 1
        /\ cpc \in {"exited", "killed"}

\* C10 witness: the producer gave up after its retries while the consumer
\* was still running, and the consumer was terminated by the signal.
C10_Witness ==
    /\ ppc = "exited"
    /\ pfatal = "retries"
    /\ cpc = "killed"

\* the producer returned from the end of main() (producer.c:189)
PNormalEnd == ppc = "exited" /\ pfatal = "none"

\* the consumer returned from the end of main() (consumer.c:170)
CNormalEnd == cpc = "exited" /\ conn_fd = "closed"

\* the consumer ended on the no-connection path (consumer.c:135-141)
CTimeoutEnd == cpc = "exited" /\ conn_fd = "none" /\ timed_out = 1

\* C11: a process that has exited has code 0 exactly when it completed
\* normally (for the consumer: also when it gave up waiting for a
\* connection), and a nonzero code after any fatal setup error, a failed
\* pthread_create being one.
C11_ExitCodes ==
    /\ ppc = "exited" =>
          /\ (PNormalEnd /\ pcreated = NUM_THREADS) => pexit = 0
          /\ (~PNormalEnd \/ pcreated < NUM_THREADS) => pexit # 0
    /\ cpc = "exited" =>
          /\ (CTimeoutEnd \/ (CNormalEnd /\ ccreated = NUM_THREADS)) => cexit = 0
          /\ (~CTimeoutEnd /\ (~CNormalEnd \/ ccreated < NUM_THREADS)) => cexit # 0

\* a step in which producer worker t's send does not transfer 4 bytes
SendFails(t) == pw[t] = "send" /\ pw'[t] # "send" /\ sent' = sent

\* a step in which consumer worker t's recv fails or returns a short frame
RecvFails(t) ==
    /\ cw[t] = "recv"
    /\ cw'[t] = "done"
    /\ cwhy'[t] \in {"error", "short"}

\* C12 as one step: a failed send or recv ends the worker that made it and
\* nothing else (the other workers and both main threads are where they
\* were); a worker that has left its loop never re-enters it; and a process
\* in which a worker failed still exits from the end of main(), with every
\* created thread joined, the connection closed and code 0.
C12_Step ==
    /\ \A t \in PW : SendFails(t) =>
          /\ pw'[t] = "done"
          /\ \A u \in PW \ {t} : pw'[u] = pw[u]
          /\ file_mutex' = file_mutex
          /\ <<ppc', pexit', pjoined'>> = <<ppc, pexit, pjoined>>
          /\ <<cpc', cw'>> = <<cpc, cw>>
    /\ \A t \in CW : RecvFails(t) =>
          /\ array_mutex' = 0
          /\ \A u \in CW \ {t} : cw'[u] = cw[u]
          /\ <<cpc', cexit', cjoined'>> = <<cpc, cexit, cjoined>>
          /\ <<ppc', pw'>> = <<ppc, pw>>
    /\ \A t \in PW : pw[t] = "done" => pw'[t] = "done"
    /\ \A t \in CW : cw[t] = "done" => cw'[t] = "done"
    /\ (sendFailed /\ ppc # "exited" /\ ppc' = "exited") =>
          /\ ppc = "waitpid"
          /\ pjoined = pcreated
          /\ connSock \notin openSocks
          /\ pexit' = 0
    /\ ((\E t \in CW : cwhy[t] \in {"error", "short"}) /\ cpc # cpc'
            /\ cpc' \in {"exited", "killed"}) =>
          /\ cpc = "join"
          /\ cjoined = ccreated
          /\ conn_fd' = "closed"
          /\ cexit' = 0

\* C12: every step of the system is such a step.
C12_WorkerFatalIsLocal == [][C12_Step]_vars

\* C12 witness: one consumer worker has ended on a recv error, and the other
\* has since taken the lock and received a further frame.
C12_Witness ==
    \E t \in CW : \E u \in CW \ {t} :
        /\ cw[t] = "done" /\ cwhy[t] = "error"
        /\ cw[u] = "store"

\* Scheduling: the processes and their threads are run by the operating
\* system, which does not leave the whole system halted while some step of
\* it can be taken.
FairSpec == Spec /\ WF_vars(Next)

\* every created worker thread has left its loop and been joined
PWorkersJoined ==
    /\ pjoined = pcreated
    /\ \A t \in PW : pw[t] = (IF t <= pcreated THEN "done" ELSE "none")

CWorkersJoined ==
    /\ cjoined = ccreated
    /\ \A t \in CW : cw[t] = (IF t <= ccreated THEN "done" ELSE "none")

\* C13 as one step: the producer's connected socket is closed only by main()
\* with every created worker ended and joined, and so is the consumer's
\* conn_fd; a closed end is not reopened and not closed again; after the
\* close no worker of that side takes a step, sends or receives; and a
\* process that had the connection does not end with it open.
C13_Step ==
    /\ (connSock \in openSocks /\ connSock \notin openSocks') =>
          ppc = "join" /\ PWorkersJoined
    /\ ProducerClosed =>
          /\ ProducerClosed'
          /\ ppc \in {"waitpid", "exited"}
          /\ <<pw', sent', sendFailed'>> = <<pw, sent, sendFailed>>
          /\ Len(wire') <= Len(wire)
    /\ (conn_fd = "open" /\ conn_fd' # "open") =>
          cpc = "join" /\ CWorkersJoined /\ conn_fd' = "closed"
    /\ conn_fd = "closed" =>
          /\ conn_fd' = "closed"
          /\ cpc = "exited"
          /\ <<cw', recvCalls', rcvd', data_index'>> = <<cw, recvCalls, rcvd, data_index>>
    /\ (ppc' = "exited" /\ connSock' # -1) => ProducerClosed'
    /\ (cpc' = "exited" /\ conn_fd' # "none") => conn_fd' = "closed"

\* C13: every step of the system is such a step.
C13_ClosedOnceAfterJoin == [][C13_Step]_vars

\* C13 witness: both ends have been closed in a run in which each side
\* created all its workers and data went through.
C13_Witness ==
    /\ ProducerClosed
    /\ conn_fd = "closed"
    /\ pcreated = NUM_THREADS /\ ccreated = NUM_THREADS
    /\ data_index >= 1

\* both processes have ended and no worker is inside its loop
AllDone ==
    /\ ppc = "exited" /\ cpc = "exited"
    /\ \A t \in PW : pw[t] \in {"none", "done"}
    /\ \A t \in CW : cw[t] \in {"none", "done"}

\* C14: under FairSpec, once the connection is established every worker
\* leaves its loop and both processes end; and the producer waits for the
\* consumer process only with its end of the connection closed.
C14_Termination ==
    /\ [](ppc = "waitpid" => ProducerClosed)
    /\ (conn = "established") ~> AllDone

\* C14 witness: the run has ended after both consumer workers, one of them
\* blocked in recv and the other on the lock, saw the producer's close.
C14_Witness ==
    /\ AllDone
    /\ conn = "established"
    /\ \A t \in CW : cwhy[t] = "closed"

\* consumer worker t is between its lock and its unlock
InArrayCS(t) == cw[t] \in {"check", "recv", "store_load", "store", "unlock"}

\* C15: at most one consumer worker is between lock and unlock, and it is
\* the owner of array_mutex, so every recv and every access to data_index
\* and data_array is made by the owner; a worker outside that section, in
\* particular one that has left its loop on any path, does not own the lock.
C15_ArrayLock ==
    /\ Cardinality({t \in CW : InArrayCS(t)}) <= 1
    /\ \A t \in CW : InArrayCS(t) <=> array_mutex = t
    /\ \A t \in CW : cw[t] = "done" =>
          /\ array_mutex # t
          /\ cwhy[t] \in {"full", "closed", "error", "short"}

\* C15 witness: after a frame was stored, one worker holds the lock while
\* blocked in recv on an empty stream, and the other waits for the lock.
C15_Witness ==
    \E t \in CW : \E u \in CW \ {t} :
        /\ cw[t] = "recv" /\ array_mutex = t /\ wire = <<>>
        /\ cw[u] = "lock"
        /\ data_index >= 1

\* producer worker t is between its lock and its unlock
InFileCS(t) == pw[t] \in {"check", "fscanf", "inc_load", "inc_store", "unlock"}

\* C16: a producer worker owns file_mutex exactly between its lock and its
\* unlock (the bound check, the read, the increment, the status line); at
\* its send, and once it has left its loop, it does not own it.
C16_SendOutsideLock ==
    /\ \A t \in PW : InFileCS(t) <=> file_mutex = t
    /\ \A t \in PW : pw[t] \in {"send", "done"} => file_mutex # t

\* C16 witness: one worker is at its send while the other, holding the
\* lock, is reading the next value from the file.
C16_Witness ==
    \E t \in PW : \E u \in PW \ {t} :
        /\ pw[t] = "send"
        /\ pw[u] = "fscanf" /\ file_mutex = u

\* The lifecycle state of the producer, read off main()'s position: INIT
\* until the input file is open (producer.c:97), HANDSHAKE in the connect
\* loop (125-164), RUNNING from the first pthread_create until the last
\* pthread_join has returned (167-180), DRAINING from there to the return
\* (182-186), DONE once the process has ended.  The exit path of a setup
\* failure (kill, waitpid, exit) stays in the state the failure occurred in.
PPhase ==
    CASE ppc = "absent" -> "NONE"
      [] ppc = "fopen" -> "INIT"
      [] ppc \in {"socket", "connect", "sleep"} -> "HANDSHAKE"
      [] ppc \in {"kill", "waitkill"} ->
            IF pfatal = "fopen" THEN "INIT" ELSE "HANDSHAKE"
      [] ppc = "create" -> "RUNNING"
      [] ppc = "join" -> IF pjoined < pcreated THEN "RUNNING" ELSE "DRAINING"
      [] ppc = "waitpid" -> "DRAINING"
      [] ppc = "exited" -> "DONE"

\* The lifecycle state of the consumer: INIT before its first transport call
\* (consumer.c:90), HANDSHAKE from there until the listening socket is closed
\* after accept (148), RUNNING and DRAINING as for the producer (152-165,
\* 167-170), DONE once the process has ended, by itself or by SIGTERM.
CPhase ==
    CASE cpc = "socket" -> "INIT"
      [] cpc \in {"bind", "alarm", "accept", "accept_failed", "accepted"} -> "HANDSHAKE"
      [] cpc = "create" -> "RUNNING"
      [] cpc = "join" -> IF cjoined < ccreated THEN "RUNNING" ELSE "DRAINING"
      [] cpc \in {"exited", "killed"} -> "DONE"

\* the forward order, and the one shortcut
ForwardEdges ==
    {<<"INIT", "HANDSHAKE">>, <<"HANDSHAKE", "RUNNING">>,
     <<"RUNNING", "DRAINING">>, <<"DRAINING", "DONE">>}

ShortcutEdges == {<<"HANDSHAKE", "DONE">>}

\* a worker thread is inside its loop
PWorkerLive == \E t \in PW : pw[t] \notin {"none", "done"}

CWorkerLive == \E t \in CW : cw[t] \notin {"none", "done"}

\* what a step does to the two lifecycle states, given the permitted edges:
\* each state changes only along a permitted edge; workers are inside their
\* loops only in RUNNING; RUNNING is left only with every worker out of its
\* loop.
LifecycleStep(edges) ==
    /\ PPhase' # PPhase => <<PPhase, PPhase'>> \in edges
    /\ CPhase' # CPhase => <<CPhase, CPhase'>> \in edges
    /\ PWorkerLive' => PPhase' = "RUNNING"
    /\ CWorkerLive' => CPhase' = "RUNNING"
    /\ (PPhase = "RUNNING" /\ PPhase' # "RUNNING") => ~PWorkerLive /\ ~PWorkerLive'
    /\ (CPhase = "RUNNING" /\ CPhase' # "RUNNING") => ~CWorkerLive /\ ~CWorkerLive'

\* C17 as stated: every step follows the forward order or the shortcut
\* HANDSHAKE -> DONE.
C17_Original == [][LifecycleStep(ForwardEdges \cup ShortcutEdges)]_vars

\* C17, amended: every step follows the forward order, the shortcut
\* HANDSHAKE -> DONE, or INIT -> DONE, taken by a process that ends before
\* its transport setup has begun.
C17_Lifecycle ==
    [][LifecycleStep(ForwardEdges \cup ShortcutEdges \cup {<<"INIT", "DONE">>})]_vars

\* C17 witness: both processes are in DONE having gone through every state,
\* each with all its workers created.
C17_Witness ==
    /\ PPhase = "DONE" /\ CPhase = "DONE"
    /\ pfatal = "none" /\ conn_fd = "closed"
    /\ pcreated = NUM_THREADS /\ ccreated = NUM_THREADS
    /\ data_index = MAX_DATA

\* C18 as one step: at most one producer socket is open; the connect loop
\* comes to a connect only from a socket() that made a new descriptor, which
\* is then the only open one; a connect is made on that newest descriptor
\* and either succeeds, leaving it open as the connection, or fails, leaving
\* it closed and socket_fd reset; and past the loop socket_fd is the open
\* descriptor whose connect succeeded.
C18_Step ==
    /\ Cardinality(openSocks) <= 1 /\ Cardinality(openSocks') <= 1
    /\ (ppc # "connect" /\ ppc' = "connect") =>
          /\ nsock' = nsock + 1
          /\ socket_fd' = nsock'
          /\ openSocks = {} /\ openSocks' = {nsock'}
    /\ (ppc = "connect" /\ ppc' # "connect") =>
          /\ socket_fd = nsock
          /\ nsock' = nsock
          /\ \/ /\ ppc' = "create"
                /\ connSock = -1 /\ connSock' = socket_fd
                /\ socket_fd' = socket_fd
                /\ openSocks' = {socket_fd}
             \/ /\ ppc' \in {"sleep", "kill"}
                /\ connSock' = -1
                /\ socket_fd' = -1
                /\ openSocks' = {}
    /\ ppc' \in {"create", "join"} =>
          /\ socket_fd' = connSock'
          /\ openSocks' = {connSock'}
    /\ (connSock # -1) => connSock' = connSock

\* C18: every step of the system is such a step.
C18_FreshSocketPerAttempt == [][C18_Step]_vars

\* C18 witness: the connect loop has ended successfully on a later attempt,
\* after an earlier socket was refused and closed.
C18_Witness ==
    /\ ppc = "create"
    /\ nsock >= 2
    /\ socket_fd = nsock
    /\ connSock = nsock
    /\ openSocks = {nsock}

\* the consumer has not yet come to its accept call
SetupPending == cpc \in {"socket", "bind", "alarm"}

\* the consumer has not yet returned from listen
ListenPending == cpc \in {"socket", "bind"}

\* C19 as stated, with "listen and accept completed" taken as the consumer
\* having come to its accept call: a connect succeeds only then; before
\* that every connect attempt fails, and no producer worker exists.
C19_Original ==
    [][ /\ (connSock = -1 /\ connSock' # -1) => ~SetupPending
        /\ (ppc = "connect" /\ ppc' # "connect" /\ SetupPending) =>
              connSock' = -1 /\ ppc' \in {"sleep", "kill"}
        /\ SetupPending' => (~PWorkerLive' /\ pcreated' = 0) ]_vars

\* C19, amended: a connect succeeds only on a listening consumer, after its
\* listen has returned; an attempt made while the consumer is not listening
\* fails, its socket is closed and the producer goes to the retry wait or the
\* fatal path; and a producer worker exists only after a connect succeeded,
\* never before the consumer's listen.
C19_ConnectAfterListen ==
    [][ /\ (connSock = -1 /\ connSock' # -1) => (listening /\ ~ListenPending)
        /\ (ppc = "connect" /\ ppc' # "connect" /\ ~listening) =>
              /\ connSock' = -1
              /\ ppc' \in {"sleep", "kill"}
              /\ socket_fd \notin openSocks'
        /\ (PWorkerLive' \/ pcreated' > 0) => connSock' # -1
        /\ ListenPending' => (~PWorkerLive' /\ pcreated' = 0) ]_vars

\* C19 witness: a frame is on the connection, sent by a producer worker,
\* while the consumer has not yet returned from accept.
C19_Witness ==
    /\ conn = "pending"
    /\ cpc = "accept"
    /\ Len(sent) >= 1
    /\ Len(wire) >= FRAME

\* the 4-byte frames of a byte sequence, decoded, in order
Frames(b) ==
    [i \in 1..(Len(b) \div FRAME) |->
        Decode([k \in 1..FRAME |-> b[FRAME * (i - 1) + k]])]

\* C20: the buffer is the first data_index frames that recv returned, in the
\* order recv returned them, at most one received frame being not yet
\* stored; and when every send transferred its 4 bytes, it is the first
\* data_index values in the order they were sent.
C20_BufferIsDeliveryOrder ==
    /\ Len(rcvd) = FRAME * (data_index
            + Cardinality({t \in CW : cw[t] \in {"store_load", "store"}}))
    /\ Cardinality({t \in CW : cw[t] \in {"store_load", "store"}}) <= 1
    /\ Buffer = Prefix(Frames(rcvd), data_index)
    /\ ~sendFailed => Buffer = Prefix(sent, data_index)

\* C20 witness: the buffer is full, both workers have left on the full
\* buffer, and the buffer, in recv order, is not in the order of the file.
C20_Witness ==
    /\ data_index = MAX_DATA
    /\ \A t \in CW : cwhy[t] = "full"
    /\ Buffer = Frames(rcvd)
    /\ Len(source) >= MAX_DATA
    /\ Buffer # Prefix(source, MAX_DATA)

=============================================================================
